---- MODULE Spec2Model ----
(***************************************************************************)
(* Mission controller of the Blue Eye drop-cam (blue_eye_v10.ino).         *)
(*                                                                         *)
(* One thread of control runs setup() and then loop().  The model follows  *)
(* that thread statement group by statement group: pc is the position in   *)
(* the sketch, stack the return addresses of the calls in progress.  Time  *)
(* (millis()) is advanced by delay() and by the sensor read only; it is    *)
(* counted in milliseconds.  Temperatures and humidities are in tenths of  *)
(* a unit (the DHT22's resolution).  A log entry is represented by its     *)
(* message text without the H:M:S prefix and without the printed values.   *)
(*                                                                         *)
(* The environment chooses: the content of the log file left by an earlier *)
(* boot, whether the SD card and the WiFi chipset are there, what          *)
(* WiFi.begin() returns, every reading of the magnetic switch, every       *)
(* sensor reading, the outcome of every client.connect() and of every      *)
(* SD.open().  The number of abnormal outcomes of one run is bounded by    *)
(* MaxAnomalies.  millis() stays far below 2^32 in every run of the model  *)
(* (the mission starts minutes after boot, see the header of the sketch),  *)
(* so the wrap of the 32-bit counter is not modelled.                      *)
(***************************************************************************)
EXTENDS Integers, Sequences, FiniteSets, TLC

\* ---------------------------------------------------------------- bounds
MaxDropTime == 1
MaxRecordingTime == 2
MaxAnomalies == 2
MaxConnectTries == 2

\* ------------------------------------------------------ program constants
oneMinute == 60000
TempLimit == 800
DHTReadTime == 250
NaN == -100000

Temps == {799, 800, 801, NaN}
Humidities == {500, NaN}
PreviousLogs == {<< >>, <<"previous boot">>}

remote_MAC_ADD == <<246, 221, 158, 130, 125, 78>>

\* hardware identifiers a build can be configured with: every 6-byte
\* sequence over two byte values, and the one of the sketch
MacBytes == {0, 170}
MacAddresses == [1..6 -> MacBytes] \cup {remote_MAC_ADD}

VARIABLES
    pc,             \* position of the thread of control in the sketch
    stack,          \* return addresses of the calls in progress
    now,            \* millis()
    time_now,       \* the sketch's global time_now
    dropTime,       \* configured descent duration, minutes
    recordingTime,  \* configured recording duration, minutes
    justWait,       \* the sketch's global justWait
    macAddress,     \* the sketch's global remote_MAC_ADD
    switchState,    \* last reading of the magnetic switch
    status,         \* the sketch's global status (WiFi)
    sdBegun,        \* SD.begin() has succeeded
    LEDstatus, LEDmagswitch, LEDwifi,
    lights,         \* value last written to lightsPin, 0..255
    lightsTrace,    \* every value written to lightsPin, in order
    burnwire,       \* level of burnwirePin
    udpOpen,        \* Udp.begin() without Udp.stop()
    packets,        \* datagrams sent, in order
    requests,       \* HTTP requests sent, in order
    h, t,           \* locals of readDHT22Values (0 outside of the call)
    log,            \* content of log.txt
    events,         \* every call with an outside effect, in order (history)
    anomalies,      \* abnormal outcomes so far (bounded by MaxAnomalies)
    connectTries    \* iterations of the connect loop so far

vars == <<pc, stack, now, time_now, dropTime, recordingTime, justWait, macAddress,
          switchState, status, sdBegun, LEDstatus, LEDmagswitch, LEDwifi,
          lights, lightsTrace, burnwire, udpOpen, packets, requests, h, t,
          log, events, anomalies, connectTries>>

\* ------------------------------------------------------------- helpers

\* printInLog: the entry is appended when SD.open returns a file, dropped
\* otherwise.  Before SD.begin() has succeeded there is no file to open.
printInLog(l, msg, ok) == IF sdBegun /\ ok THEN Append(l, msg) ELSE l

Fail(ok) == IF ok THEN 0 ELSE 1

\* float comparisons: every comparison with NaN is false
isnan(x) == x = NaN
\* the comparison of line 427 written with >= (a sample at the limit fires)
\* the comparison written as !(t <= 80.0): true of a failed reading
OverLimitOrInvalid(x) == isnan(x) \/ x > TempLimit
OverLimitInclusive(x) == ~isnan(x) /\ x >= TempLimit
OverLimit(x) == ~isnan(x) /\ x > TempLimit

\* the loop condition written with <=
LoopConditionInclusive(millis, start, minutes) == millis <= start + (minutes * oneMinute)

\* the condition of both wait loops: millis() < time_now + (minutes * oneMinute)
LoopCondition(millis, start, minutes) == millis < start + (minutes * oneMinute)

\* the values the ramp-up loop writes, in order:
\* for (int i = 0; i < 255; i++) analogWrite(lightsPin, i)
\* the ramp-up loop running on through i = 256
RampUpWritesPast255 == [k \in 1..257 |-> k - 1]
RampUpWrites == [k \in 1..255 |-> k - 1]

\* the values the ramp-down loop writes, in order:
\* for (int i = 255; i > 0; i--) analogWrite(lightsPin, i), then LOW
RampDownWrites == [k \in 1..256 |-> IF k <= 255 THEN 256 - k ELSE 0]

\* SendMagicPacket: 6 bytes 0xFF, then 16 times the 6 bytes of the address
RECURSIVE MacCycles(_, _, _)
MacCycles(mac, Cycle, acc) ==
    IF Cycle < 16 THEN MacCycles(mac, Cycle + 1, acc \o mac) ELSE acc
\* the packet with a synchronisation prefix of 5 bytes
magicPacketShortPrefix(mac) == MacCycles(mac, 0, [i \in 1..5 |-> 255])
magicPacket(mac) == MacCycles(mac, 0, [i \in 1..6 |-> 255])

\* ---------------------------------------------------------------- Init
Init ==
    /\ pc = "setup"
    /\ stack = << >>
    /\ now = 0
    /\ time_now = 0
    /\ dropTime \in 0..MaxDropTime
    /\ recordingTime \in 0..MaxRecordingTime
    /\ justWait = TRUE
    /\ macAddress = remote_MAC_ADD
    /\ switchState = "LOW"
    /\ status = "WL_IDLE_STATUS"
    /\ sdBegun = FALSE
    /\ LEDstatus = "LOW"
    /\ LEDmagswitch = "LOW"
    /\ LEDwifi = "LOW"
    /\ lights = 0
    /\ lightsTrace = << >>
    /\ burnwire = "LOW"
    /\ udpOpen = FALSE
    /\ packets = << >>
    /\ requests = << >>
    /\ h = 0
    /\ t = 0
    /\ log \in PreviousLogs
    /\ events = << >>
    /\ anomalies = 0
    /\ connectTries = 0

\* --------------------------------------------------------------- setup()

\* lines 103-124: pins, status LED, first log attempt (before SD.begin)
Setup ==
    /\ pc = "setup"
    /\ burnwire' = "LOW"
    /\ LEDstatus' = "HIGH"
    /\ log' = printInLog(log, "Hello! Welcome to the blue_eye 2.0", TRUE)
    /\ events' = events \o <<"Hello! Welcome to the blue_eye 2.0">>
    /\ pc' = "sdBegin"
    /\ UNCHANGED <<stack, now, time_now, dropTime, recordingTime, justWait, macAddress,
                   switchState, status, sdBegun, LEDmagswitch, LEDwifi, lights,
                   lightsTrace, udpOpen, packets, requests, h, t, anomalies,
                   connectTries>>

\* initializeLog: the file of an earlier boot is removed
initializeLog(l) == << >>

\* lines 126-133
SdBegin ==
    /\ pc = "sdBegin"
    /\ \E present \in BOOLEAN :
         IF present
         THEN /\ sdBegun' = TRUE
              /\ log' = initializeLog(log)
              /\ events' = events \o <<"initializeLog">>
              /\ pc' = "wifiCheck"
         ELSE /\ sdBegun' = FALSE
              /\ log' = printInLog(log, "SD card failed, or not present in MEM Shield", TRUE)
              /\ events' = events \o <<"SD card failed, or not present in MEM Shield">>
              /\ pc' = "haltSD"
    /\ UNCHANGED <<stack, now, time_now, dropTime, recordingTime, justWait, macAddress,
                   switchState, status, LEDstatus, LEDmagswitch, LEDwifi, lights,
                   lightsTrace, burnwire, udpOpen, packets, requests, h, t,
                   anomalies, connectTries>>

\* setup() going on to the network check after the failure of the card
HaltSDFallsThrough ==
    /\ pc = "haltSD"
    /\ pc' = "wifiCheck"
    /\ UNCHANGED <<stack, now, time_now, dropTime, recordingTime, justWait, macAddress,
                   switchState, status, sdBegun, LEDstatus, LEDmagswitch, LEDwifi,
                   lights, lightsTrace, burnwire, udpOpen, packets, requests, h, t,
                   log, events, anomalies, connectTries>>

\* line 129: while (1);
HaltSD ==
    /\ pc = "haltSD"
    /\ UNCHANGED vars

\* lines 136-139
WifiCheck ==
    /\ pc = "wifiCheck"
    /\ \E shield \in BOOLEAN, ok \in BOOLEAN :
         IF shield
         THEN /\ ok
              /\ pc' = "connectBegin"
              /\ UNCHANGED <<log, events, anomalies>>
         ELSE /\ anomalies + Fail(ok) <= MaxAnomalies
              /\ anomalies' = anomalies + Fail(ok)
              /\ log' = printInLog(log, "WiFi chipset not present in Arduino", ok)
              /\ events' = events \o <<"WiFi chipset not present in Arduino">>
              /\ pc' = "haltWifi"
    /\ UNCHANGED <<stack, now, time_now, dropTime, recordingTime, justWait, macAddress,
                   switchState, status, sdBegun, LEDstatus, LEDmagswitch, LEDwifi,
                   lights, lightsTrace, burnwire, udpOpen, packets, requests, h, t,
                   connectTries>>

\* line 138: while (true);
HaltWifi ==
    /\ pc = "haltWifi"
    /\ UNCHANGED vars

\* ------------------------------------------------------ ConnectToGoPro()

\* line 210: status = WiFi.begin(ssid, pass)
ConnectBegin ==
    /\ pc = "connectBegin"
    /\ status' \in {"WL_CONNECTED", "WL_CONNECT_FAILED"}
    /\ events' = events \o <<"WiFi.begin">>
    /\ pc' = "connectLoop"
    /\ UNCHANGED <<stack, now, time_now, dropTime, recordingTime, justWait, macAddress,
                   switchState, sdBegun, LEDstatus, LEDmagswitch, LEDwifi, lights,
                   lightsTrace, burnwire, udpOpen, packets, requests, h, t, log,
                   anomalies, connectTries>>

\* the loop with status = WiFi.status() at the end of its body
ConnectLoopRereads ==
    /\ pc = "connectLoop"
    /\ status # "WL_CONNECTED"
    /\ connectTries < MaxConnectTries
    /\ \E ok1 \in BOOLEAN, ok2 \in BOOLEAN :
         /\ anomalies + Fail(ok1) + Fail(ok2) <= MaxAnomalies
         /\ anomalies' = anomalies + Fail(ok1) + Fail(ok2)
         /\ log' = printInLog(printInLog(log,
                        "Arduino is attempting to connect to GoPro's WiFi ...", ok1),
                        status, ok2)
    /\ events' = events \o
          <<"Arduino is attempting to connect to GoPro's WiFi ...", status>>
    /\ LEDwifi' = "LOW"
    /\ now' = now + 2 * (1000 + 1000)
    /\ connectTries' = connectTries + 1
    /\ status' \in {"WL_CONNECTED", "WL_CONNECT_FAILED"}
    /\ pc' = "connectLoop"
    /\ UNCHANGED <<stack, time_now, dropTime, recordingTime, justWait, macAddress,
                   switchState, sdBegun, LEDstatus, LEDmagswitch, lights,
                   lightsTrace, burnwire, udpOpen, packets, requests, h, t>>

\* lines 212-221: one iteration of while (status != WL_CONNECTED)
ConnectLoop ==
    /\ pc = "connectLoop"
    /\ status # "WL_CONNECTED"
    /\ connectTries < MaxConnectTries
    /\ \E ok1 \in BOOLEAN, ok2 \in BOOLEAN :
         /\ anomalies + Fail(ok1) + Fail(ok2) <= MaxAnomalies
         /\ anomalies' = anomalies + Fail(ok1) + Fail(ok2)
         /\ log' = printInLog(printInLog(log,
                        "Arduino is attempting to connect to GoPro's WiFi ...", ok1),
                        status, ok2)
    /\ events' = events \o
          <<"Arduino is attempting to connect to GoPro's WiFi ...", status>>
    /\ LEDwifi' = "LOW"
    /\ now' = now + 2 * (1000 + 1000)
    /\ connectTries' = connectTries + 1
    /\ pc' = "connectLoop"
    /\ UNCHANGED <<stack, time_now, dropTime, recordingTime, justWait, macAddress,
                   switchState, status, sdBegun, LEDstatus, LEDmagswitch, lights,
                   lightsTrace, burnwire, udpOpen, packets, requests, h, t>>

\* lines 223-232: the loop is left, LED on, the lights blink three times
ConnectDone ==
    /\ pc = "connectLoop"
    /\ status = "WL_CONNECTED"
    /\ \E ok \in BOOLEAN :
         /\ anomalies + Fail(ok) <= MaxAnomalies
         /\ anomalies' = anomalies + Fail(ok)
         /\ log' = printInLog(log, "Arduino is connected to GoPro's WiFi network", ok)
    /\ events' = events \o <<"Arduino is connected to GoPro's WiFi network">>
    /\ LEDwifi' = "HIGH"
    /\ lights' = 0
    /\ lightsTrace' = lightsTrace \o <<255, 0, 255, 0, 255, 0>>
    /\ now' = now + 3 * (500 + 500)
    /\ pc' = "magSwitch"
    /\ UNCHANGED <<stack, time_now, dropTime, recordingTime, justWait, macAddress,
                   switchState, status, sdBegun, LEDstatus, LEDmagswitch,
                   burnwire, udpOpen, packets, requests, h, t, connectTries>>

\* ------------------------------------------------------ MagneticSwitch()

\* lines 250-264: one reading of the switch (INPUT_PULLUP: HIGH is "not
\* activated"); the function returns on the first reading that is not HIGH
MagneticSwitch ==
    /\ pc = "magSwitch"
    /\ \E reading \in {"HIGH", "LOW"}, ok \in BOOLEAN :
         /\ switchState' = reading
         /\ IF reading = "HIGH"
            THEN /\ ok
                 /\ LEDmagswitch' = "LOW"
                 /\ pc' = "magSwitch"
                 /\ UNCHANGED <<log, events, anomalies>>
            ELSE /\ anomalies + Fail(ok) <= MaxAnomalies
                 /\ anomalies' = anomalies + Fail(ok)
                 /\ LEDmagswitch' = "HIGH"
                 /\ log' = printInLog(log, "Magnetic switch activated", ok)
                 /\ events' = events \o <<"digitalRead LOW", "Magnetic switch activated">>
                 /\ pc' = "udpBegin"
    /\ UNCHANGED <<stack, now, time_now, dropTime, recordingTime, justWait, macAddress,
                   status, sdBegun, LEDstatus, LEDwifi, lights, lightsTrace,
                   burnwire, udpOpen, packets, requests, h, t, connectTries>>

\* --------------------------------------------------------- WakeupGoPro()

\* lines 271-274
UdpBegin ==
    /\ pc = "udpBegin"
    /\ udpOpen' = TRUE
    /\ events' = events \o <<"Udp.begin">>
    /\ now' = now + 2000
    /\ pc' = "sendMagicPacket"
    /\ UNCHANGED <<stack, time_now, dropTime, recordingTime, justWait, macAddress,
                   switchState, status, sdBegun, LEDstatus, LEDmagswitch, LEDwifi,
                   lights, lightsTrace, burnwire, packets, requests, h, t, log,
                   anomalies, connectTries>>

\* WakeupGoPro() calling SendMagicPacket() twice
SendMagicPacketTwice ==
    /\ pc = "sendMagicPacket"
    /\ packets' = packets \o <<magicPacket(macAddress), magicPacket(macAddress)>>
    /\ events' = events \o <<"Udp.write", "Udp.write">>
    /\ now' = now + 6000
    /\ pc' = "udpFlush"
    /\ UNCHANGED <<stack, time_now, dropTime, recordingTime, justWait, macAddress,
                   switchState, status, sdBegun, LEDstatus, LEDmagswitch, LEDwifi,
                   lights, lightsTrace, burnwire, udpOpen, requests, h, t, log,
                   anomalies, connectTries>>

\* lines 275-276 and 294-330
SendMagicPacket ==
    /\ pc = "sendMagicPacket"
    /\ packets' = Append(packets, magicPacket(macAddress))
    /\ events' = events \o <<"Udp.write">>
    /\ now' = now + 6000
    /\ pc' = "udpFlush"
    /\ UNCHANGED <<stack, time_now, dropTime, recordingTime, justWait, macAddress,
                   switchState, status, sdBegun, LEDstatus, LEDmagswitch, LEDwifi,
                   lights, lightsTrace, burnwire, udpOpen, requests, h, t, log,
                   anomalies, connectTries>>

\* lines 279-280
UdpFlush ==
    /\ pc = "udpFlush"
    /\ events' = events \o <<"Udp.flush">>
    /\ now' = now + 1000
    /\ pc' = "udpStop"
    /\ UNCHANGED <<stack, time_now, dropTime, recordingTime, justWait, macAddress,
                   switchState, status, sdBegun, LEDstatus, LEDmagswitch, LEDwifi,
                   lights, lightsTrace, burnwire, udpOpen, packets, requests, h, t,
                   log, anomalies, connectTries>>

\* lines 283-286
UdpStop ==
    /\ pc = "udpStop"
    /\ udpOpen' = FALSE
    /\ now' = now + 1000
    /\ \E ok \in BOOLEAN :
         /\ anomalies + Fail(ok) <= MaxAnomalies
         /\ anomalies' = anomalies + Fail(ok)
         /\ log' = printInLog(log, "Waking up GoPro", ok)
    /\ events' = events \o <<"Udp.stop", "Waking up GoPro">>
    /\ pc' = "descent"
    /\ UNCHANGED <<stack, time_now, dropTime, recordingTime, justWait, macAddress,
                   switchState, status, sdBegun, LEDstatus, LEDmagswitch, LEDwifi,
                   lights, lightsTrace, burnwire, packets, requests, h, t,
                   connectTries>>

\* ---------------------------------------------------- readDHT22Values()

\* cost, in abnormal outcomes, of one pair of readings
ReadingCost(hh, tt) ==
    (IF isnan(hh) THEN 1 ELSE 0) + (IF isnan(tt) THEN 1 ELSE 0)
  + (IF OverLimit(tt) THEN 1 ELSE 0)

\* lines 423-429: both readings are taken; a temperature over the limit
\* calls BurnWire() before anything else is looked at
DhtRead ==
    /\ pc = "dhtRead"
    /\ \E hh \in Humidities, tt \in Temps :
         /\ anomalies + ReadingCost(hh, tt) <= MaxAnomalies
         /\ anomalies' = anomalies + ReadingCost(hh, tt)
         /\ h' = hh
         /\ t' = tt
         /\ IF OverLimit(tt)
            THEN /\ pc' = "burnWire"
                 /\ stack' = <<"dhtCheck">> \o stack
            ELSE /\ pc' = "dhtCheck"
                 /\ stack' = stack
    /\ events' = events \o <<"dht.read">>
    /\ now' = now + DHTReadTime
    /\ UNCHANGED <<time_now, dropTime, recordingTime, justWait, macAddress, switchState,
                   status, sdBegun, LEDstatus, LEDmagswitch, LEDwifi, lights,
                   lightsTrace, burnwire, udpOpen, packets, requests, log,
                   connectTries>>

\* readDHT22Values returning on a failed reading without an entry
DhtCheckSilent ==
    /\ pc = "dhtCheck"
    /\ \E ok \in BOOLEAN :
         /\ anomalies + Fail(ok) <= MaxAnomalies
         /\ anomalies' = anomalies + Fail(ok)
         /\ IF isnan(h) \/ isnan(t)
            THEN /\ ok
                 /\ UNCHANGED <<log, events>>
            ELSE /\ log' = printInLog(log, "Humidity: Temperature:", ok)
                 /\ events' = events \o <<"Humidity: Temperature:">>
    /\ h' = 0
    /\ t' = 0
    /\ pc' = Head(stack)
    /\ stack' = Tail(stack)
    /\ UNCHANGED <<now, time_now, dropTime, recordingTime, justWait, macAddress, switchState,
                   status, sdBegun, LEDstatus, LEDmagswitch, LEDwifi, lights,
                   lightsTrace, burnwire, udpOpen, packets, requests,
                   connectTries>>

\* lines 432-439: the entry of the sample, then return to the caller
DhtCheck ==
    /\ pc = "dhtCheck"
    /\ \E ok \in BOOLEAN :
         /\ anomalies + Fail(ok) <= MaxAnomalies
         /\ anomalies' = anomalies + Fail(ok)
         /\ IF isnan(h) \/ isnan(t)
            THEN /\ log' = printInLog(log, "Failed to read from DHT sensor", ok)
                 /\ events' = events \o <<"Failed to read from DHT sensor">>
            ELSE /\ log' = printInLog(log, "Humidity: Temperature:", ok)
                 /\ events' = events \o <<"Humidity: Temperature:">>
    /\ h' = 0
    /\ t' = 0
    /\ pc' = Head(stack)
    /\ stack' = Tail(stack)
    /\ UNCHANGED <<now, time_now, dropTime, recordingTime, justWait, macAddress, switchState,
                   status, sdBegun, LEDstatus, LEDmagswitch, LEDwifi, lights,
                   lightsTrace, burnwire, udpOpen, packets, requests,
                   connectTries>>

\* ------------------------------------------------------------ BurnWire()

\* lines 444-447
BurnWireOn ==
    /\ pc = "burnWire"
    /\ \E ok \in BOOLEAN :
         /\ anomalies + Fail(ok) <= MaxAnomalies
         /\ anomalies' = anomalies + Fail(ok)
         /\ log' = printInLog(log, "Burning wire", ok)
    /\ events' = events \o <<"Burning wire", "burnwire HIGH">>
    /\ burnwire' = "HIGH"
    /\ pc' = "burnHold"
    /\ UNCHANGED <<stack, now, time_now, dropTime, recordingTime, justWait, macAddress,
                   switchState, status, sdBegun, LEDstatus, LEDmagswitch, LEDwifi,
                   lights, lightsTrace, udpOpen, packets, requests, h, t,
                   connectTries>>

\* BurnWire() ending the mission wherever it was called from
BurnWireOffAborts ==
    /\ pc = "burnHold"
    /\ now' = now + oneMinute * 10
    /\ burnwire' = "LOW"
    /\ \E ok \in BOOLEAN :
         /\ anomalies + Fail(ok) <= MaxAnomalies
         /\ anomalies' = anomalies + Fail(ok)
         /\ log' = printInLog(log, "End of mission. blue_eye is coming up!", ok)
    /\ events' = events \o <<"burnwire LOW", "End of mission. blue_eye is coming up!">>
    /\ pc' = "idle"
    /\ stack' = << >>
    /\ UNCHANGED <<time_now, dropTime, recordingTime, justWait, macAddress, switchState,
                   status, sdBegun, LEDstatus, LEDmagswitch, LEDwifi, lights,
                   lightsTrace, udpOpen, packets, requests, h, t, connectTries>>

\* BurnWire() returning without the second digitalWrite
BurnWireOffLeavesHigh ==
    /\ pc = "burnHold"
    /\ now' = now + oneMinute * 10
    /\ burnwire' = "HIGH"
    /\ \E ok \in BOOLEAN :
         /\ anomalies + Fail(ok) <= MaxAnomalies
         /\ anomalies' = anomalies + Fail(ok)
         /\ log' = printInLog(log, "End of mission. blue_eye is coming up!", ok)
    /\ events' = events \o <<"burnwire LOW", "End of mission. blue_eye is coming up!">>
    /\ pc' = Head(stack)
    /\ stack' = Tail(stack)
    /\ UNCHANGED <<time_now, dropTime, recordingTime, justWait, macAddress, switchState,
                   status, sdBegun, LEDstatus, LEDmagswitch, LEDwifi, lights,
                   lightsTrace, udpOpen, packets, requests, h, t, connectTries>>

\* lines 448-453: the hold, the pin low again, the closing entry, return
BurnWireOff ==
    /\ pc = "burnHold"
    /\ now' = now + oneMinute * 10
    /\ burnwire' = "LOW"
    /\ \E ok \in BOOLEAN :
         /\ anomalies + Fail(ok) <= MaxAnomalies
         /\ anomalies' = anomalies + Fail(ok)
         /\ log' = printInLog(log, "End of mission. blue_eye is coming up!", ok)
    /\ events' = events \o <<"burnwire LOW", "End of mission. blue_eye is coming up!">>
    /\ pc' = Head(stack)
    /\ stack' = Tail(stack)
    /\ UNCHANGED <<time_now, dropTime, recordingTime, justWait, macAddress, switchState,
                   status, sdBegun, LEDstatus, LEDmagswitch, LEDwifi, lights,
                   lightsTrace, udpOpen, packets, requests, h, t, connectTries>>

\* ---------------------------------------------------------------- loop()

\* loop() blocking on the entry until the sink takes it
DescentBlocksOnSink ==
    /\ pc = "descent"
    /\ time_now' = now
    /\ \E ok \in BOOLEAN :
         /\ anomalies + Fail(ok) <= MaxAnomalies
         /\ anomalies' = anomalies + Fail(ok)
         /\ log' = printInLog(log, "blue_eye on its way to the deep sea", ok)
         /\ pc' = IF ok THEN "dropLoop" ELSE "descent"
    /\ events' = events \o <<"blue_eye on its way to the deep sea">>
    /\ UNCHANGED <<stack, now, dropTime, recordingTime, justWait, macAddress, switchState,
                   status, sdBegun, LEDstatus, LEDmagswitch, LEDwifi, lights,
                   lightsTrace, burnwire, udpOpen, packets, requests, h, t,
                   connectTries>>

\* lines 152-154
Descent ==
    /\ pc = "descent"
    /\ time_now' = now
    /\ \E ok \in BOOLEAN :
         /\ anomalies + Fail(ok) <= MaxAnomalies
         /\ anomalies' = anomalies + Fail(ok)
         /\ log' = printInLog(log, "blue_eye on its way to the deep sea", ok)
    /\ events' = events \o <<"blue_eye on its way to the deep sea">>
    /\ pc' = "dropLoop"
    /\ UNCHANGED <<stack, now, dropTime, recordingTime, justWait, macAddress, switchState,
                   status, sdBegun, LEDstatus, LEDmagswitch, LEDwifi, lights,
                   lightsTrace, burnwire, udpOpen, packets, requests, h, t,
                   connectTries>>

\* line 156, condition true: the body starts with the call of line 157
DropLoop ==
    /\ pc = "dropLoop"
    /\ LoopCondition(now, time_now, dropTime)
    /\ pc' = "dhtRead"
    /\ stack' = <<"dropDelay">> \o stack
    /\ UNCHANGED <<now, time_now, dropTime, recordingTime, justWait, macAddress, switchState,
                   status, sdBegun, LEDstatus, LEDmagswitch, LEDwifi, lights,
                   lightsTrace, burnwire, udpOpen, packets, requests, h, t, log,
                   events, anomalies, connectTries>>

\* line 158
DropDelay ==
    /\ pc = "dropDelay"
    /\ now' = now + oneMinute
    /\ pc' = "dropLoop"
    /\ UNCHANGED <<stack, time_now, dropTime, recordingTime, justWait, macAddress,
                   switchState, status, sdBegun, LEDstatus, LEDmagswitch, LEDwifi,
                   lights, lightsTrace, burnwire, udpOpen, packets, requests, h, t,
                   log, events, anomalies, connectTries>>

\* line 156, condition false, and lines 161-163
Arrived ==
    /\ pc = "dropLoop"
    /\ ~LoopCondition(now, time_now, dropTime)
    /\ \E ok1 \in BOOLEAN, ok2 \in BOOLEAN :
         /\ anomalies + Fail(ok1) + Fail(ok2) <= MaxAnomalies
         /\ anomalies' = anomalies + Fail(ok1) + Fail(ok2)
         /\ log' = printInLog(printInLog(log, "blue_eye arrived to the seabed", ok1),
                              "Turning lights on", ok2)
    /\ events' = events \o <<"blue_eye arrived to the seabed", "Turning lights on">>
    /\ pc' = "rampUp"
    /\ UNCHANGED <<stack, now, time_now, dropTime, recordingTime, justWait, macAddress,
                   switchState, status, sdBegun, LEDstatus, LEDmagswitch, LEDwifi,
                   lights, lightsTrace, burnwire, udpOpen, packets, requests, h, t,
                   connectTries>>

\* lines 165-169: every write of the loop, 5 ms after each
RampUp ==
    /\ pc = "rampUp"
    /\ lightsTrace' = lightsTrace \o RampUpWrites
    /\ lights' = RampUpWrites[Len(RampUpWrites)]
    /\ now' = now + Len(RampUpWrites) * 5
    /\ events' = events \o <<"ramp up">>
    /\ pc' = "startRecording"
    /\ UNCHANGED <<stack, time_now, dropTime, recordingTime, justWait, macAddress,
                   switchState, status, sdBegun, LEDstatus, LEDmagswitch, LEDwifi,
                   burnwire, udpOpen, packets, requests, h, t, log, anomalies,
                   connectTries>>

\* StartRecording() trying again until the connection is there
StartRecordingRetries ==
    /\ pc = "startRecording"
    /\ \E connected \in BOOLEAN, ok \in BOOLEAN :
         /\ anomalies + Fail(connected) + Fail(ok) <= MaxAnomalies
         /\ anomalies' = anomalies + Fail(connected) + Fail(ok)
         /\ IF ~connected
            THEN /\ log' = printInLog(log, "Start recording failed", ok)
                 /\ events' = events \o <<"client.connect", "Start recording failed">>
                 /\ requests' = requests
                 /\ pc' = "startRecording"
            ELSE /\ requests' = Append(requests, "GET /gp/gpControl/command/shutter?p=1")
                 /\ log' = printInLog(log, "GoPro started recording", ok)
                 /\ events' = events \o <<"client.connect",
                        "GET /gp/gpControl/command/shutter?p=1", "GoPro started recording">>
                 /\ pc' = "recording"
    /\ UNCHANGED <<stack, now, time_now, dropTime, recordingTime, justWait, macAddress,
                   switchState, status, sdBegun, LEDstatus, LEDmagswitch, LEDwifi,
                   lights, lightsTrace, burnwire, udpOpen, packets, h, t,
                   connectTries>>

\* lines 333-348
StartRecording ==
    /\ pc = "startRecording"
    /\ \E connected \in BOOLEAN, ok \in BOOLEAN :
         /\ anomalies + Fail(connected) + Fail(ok) <= MaxAnomalies
         /\ anomalies' = anomalies + Fail(connected) + Fail(ok)
         /\ IF ~connected
            THEN /\ log' = printInLog(log, "Start recording failed", ok)
                 /\ events' = events \o <<"client.connect", "Start recording failed">>
                 /\ requests' = requests
            ELSE /\ requests' = Append(requests, "GET /gp/gpControl/command/shutter?p=1")
                 /\ log' = printInLog(log, "GoPro started recording", ok)
                 /\ events' = events \o <<"client.connect",
                        "GET /gp/gpControl/command/shutter?p=1", "GoPro started recording">>
    /\ pc' = "recording"
    /\ UNCHANGED <<stack, now, time_now, dropTime, recordingTime, justWait, macAddress,
                   switchState, status, sdBegun, LEDstatus, LEDmagswitch, LEDwifi,
                   lights, lightsTrace, burnwire, udpOpen, packets, h, t,
                   connectTries>>

\* line 173
Recording ==
    /\ pc = "recording"
    /\ time_now' = now
    /\ pc' = "recLoop"
    /\ UNCHANGED <<stack, now, dropTime, recordingTime, justWait, macAddress, switchState,
                   status, sdBegun, LEDstatus, LEDmagswitch, LEDwifi, lights,
                   lightsTrace, burnwire, udpOpen, packets, requests, h, t, log,
                   events, anomalies, connectTries>>

\* line 176, condition true: the body starts with the call of line 177
RecLoop ==
    /\ pc = "recLoop"
    /\ LoopCondition(now, time_now, recordingTime)
    /\ pc' = "dhtRead"
    /\ stack' = <<"recDelay">> \o stack
    /\ UNCHANGED <<now, time_now, dropTime, recordingTime, justWait, macAddress, switchState,
                   status, sdBegun, LEDstatus, LEDmagswitch, LEDwifi, lights,
                   lightsTrace, burnwire, udpOpen, packets, requests, h, t, log,
                   events, anomalies, connectTries>>

\* line 178
RecDelay ==
    /\ pc = "recDelay"
    /\ now' = now + oneMinute
    /\ pc' = "recLoop"
    /\ UNCHANGED <<stack, time_now, dropTime, recordingTime, justWait, macAddress,
                   switchState, status, sdBegun, LEDstatus, LEDmagswitch, LEDwifi,
                   lights, lightsTrace, burnwire, udpOpen, packets, requests, h, t,
                   log, events, anomalies, connectTries>>

\* the recording loop followed by the ramp-down, without StopRecording()
RecDoneSkipsStop ==
    /\ pc = "recLoop"
    /\ ~LoopCondition(now, time_now, recordingTime)
    /\ pc' = "rampDown"
    /\ UNCHANGED <<stack, now, time_now, dropTime, recordingTime, justWait, macAddress,
                   switchState, status, sdBegun, LEDstatus, LEDmagswitch, LEDwifi,
                   lights, lightsTrace, burnwire, udpOpen, packets, requests, h, t,
                   log, events, anomalies, connectTries>>

\* line 176, condition false
RecDone ==
    /\ pc = "recLoop"
    /\ ~LoopCondition(now, time_now, recordingTime)
    /\ pc' = "stopRecording"
    /\ UNCHANGED <<stack, now, time_now, dropTime, recordingTime, justWait, macAddress,
                   switchState, status, sdBegun, LEDstatus, LEDmagswitch, LEDwifi,
                   lights, lightsTrace, burnwire, udpOpen, packets, requests, h, t,
                   log, events, anomalies, connectTries>>

\* lines 351-367
StopRecording ==
    /\ pc = "stopRecording"
    /\ \E connected \in BOOLEAN, ok \in BOOLEAN :
         /\ anomalies + Fail(connected) + Fail(ok) <= MaxAnomalies
         /\ anomalies' = anomalies + Fail(connected) + Fail(ok)
         /\ IF ~connected
            THEN /\ log' = printInLog(log, "Stop recording failed", ok)
                 /\ events' = events \o <<"client.connect", "Stop recording failed">>
                 /\ requests' = requests
            ELSE /\ requests' = Append(requests, "GET /gp/gpControl/command/shutter?p=0")
                 /\ log' = printInLog(log, "GoPro stopped recording", ok)
                 /\ events' = events \o <<"client.connect",
                        "GET /gp/gpControl/command/shutter?p=0", "GoPro stopped recording">>
    /\ pc' = "rampDown"
    /\ UNCHANGED <<stack, now, time_now, dropTime, recordingTime, justWait, macAddress,
                   switchState, status, sdBegun, LEDstatus, LEDmagswitch, LEDwifi,
                   lights, lightsTrace, burnwire, udpOpen, packets, h, t,
                   connectTries>>

\* lines 185-193: every write of the loop, 50 ms after each, then LOW
RampDown ==
    /\ pc = "rampDown"
    /\ lightsTrace' = lightsTrace \o RampDownWrites
    /\ lights' = RampDownWrites[Len(RampDownWrites)]
    /\ now' = now + (Len(RampDownWrites) - 1) * 50
    /\ \E ok \in BOOLEAN :
         /\ anomalies + Fail(ok) <= MaxAnomalies
         /\ anomalies' = anomalies + Fail(ok)
         /\ log' = printInLog(log, "Turning lights off", ok)
    /\ events' = events \o <<"ramp down", "Turning lights off">>
    /\ pc' = "release"
    /\ UNCHANGED <<stack, time_now, dropTime, recordingTime, justWait, macAddress,
                   switchState, status, sdBegun, LEDstatus, LEDmagswitch, LEDwifi,
                   burnwire, udpOpen, packets, requests, h, t, connectTries>>

\* line 195: the call of BurnWire() at the end of the mission
Release ==
    /\ pc = "release"
    /\ pc' = "burnWire"
    /\ stack' = <<"disconnect">> \o stack
    /\ UNCHANGED <<now, time_now, dropTime, recordingTime, justWait, macAddress, switchState,
                   status, sdBegun, LEDstatus, LEDmagswitch, LEDwifi, lights,
                   lightsTrace, burnwire, udpOpen, packets, requests, h, t, log,
                   events, anomalies, connectTries>>

\* lines 197-199 and 240-246
DisconnectFromGoPro ==
    /\ pc = "disconnect"
    /\ events' = events \o <<"WiFi.disconnect">>
    /\ LEDwifi' = "LOW"
    /\ LEDmagswitch' = "LOW"
    /\ pc' = "idle"
    /\ UNCHANGED <<stack, now, time_now, dropTime, recordingTime, justWait, macAddress,
                   switchState, status, sdBegun, LEDstatus, lights, lightsTrace,
                   burnwire, udpOpen, packets, requests, h, t, log, anomalies,
                   connectTries>>

\* the final loop left: loop() returns and is called again
IdleReturns ==
    /\ pc = "idle"
    /\ pc' = "magSwitch"
    /\ UNCHANGED <<stack, now, time_now, dropTime, recordingTime, justWait, macAddress,
                   switchState, status, sdBegun, LEDstatus, LEDmagswitch, LEDwifi,
                   lights, lightsTrace, burnwire, udpOpen, packets, requests, h, t,
                   log, events, anomalies, connectTries>>

\* lines 201-202: while (justWait == true) {}
Idle ==
    /\ pc = "idle"
    /\ justWait = TRUE
    /\ UNCHANGED vars

Next ==
    \/ Setup \/ SdBegin \/ HaltSD \/ WifiCheck \/ HaltWifi
    \/ ConnectBegin \/ ConnectLoop \/ ConnectDone
    \/ MagneticSwitch
    \/ UdpBegin \/ SendMagicPacket \/ UdpFlush \/ UdpStop
    \/ Descent \/ DropLoop \/ DropDelay \/ Arrived
    \/ DhtRead \/ DhtCheck \/ BurnWireOn \/ BurnWireOff
    \/ RampUp \/ StartRecording \/ Recording \/ RecLoop \/ RecDelay \/ RecDone
    \/ StopRecording \/ RampDown \/ Release \/ DisconnectFromGoPro \/ Idle

Spec == Init /\ [][Next]_vars

\* The sketch built for any hardware identifier, from boot to the end of
\* WakeupGoPro().
PacketInit ==
    /\ pc = "setup"
    /\ stack = << >>
    /\ now = 0
    /\ time_now = 0
    /\ dropTime = 0
    /\ recordingTime = 0
    /\ justWait = TRUE
    /\ macAddress \in MacAddresses
    /\ switchState = "LOW"
    /\ status = "WL_IDLE_STATUS"
    /\ sdBegun = FALSE
    /\ LEDstatus = "LOW"
    /\ LEDmagswitch = "LOW"
    /\ LEDwifi = "LOW"
    /\ lights = 0
    /\ lightsTrace = << >>
    /\ burnwire = "LOW"
    /\ udpOpen = FALSE
    /\ packets = << >>
    /\ requests = << >>
    /\ h = 0
    /\ t = 0
    /\ log = << >>
    /\ events = << >>
    /\ anomalies = 0
    /\ connectTries = 0

PacketNext ==
    \/ Setup \/ SdBegin \/ HaltSD \/ WifiCheck \/ HaltWifi
    \/ ConnectBegin \/ ConnectLoop \/ ConnectDone
    \/ MagneticSwitch
    \/ UdpBegin \/ SendMagicPacket \/ UdpFlush \/ UdpStop

PacketSpec == PacketInit /\ [][PacketNext]_vars

\* The thread of control always runs on; only the reading of the magnetic
\* switch waits on the outside (the switch may stay untouched for ever).
Running == Next /\ pc # "magSwitch"
FairSpec == Spec /\ WF_vars(Running)

\* ------------------------------------------------- reading the history

Count(seq, e) == Cardinality({i \in DOMAIN seq : seq[i] = e})

\* index of the last occurrence of e in events, 0 when there is none
LastIndex(e) ==
    IF \E i \in DOMAIN events : events[i] = e
    THEN CHOOSE i \in DOMAIN events :
            events[i] = e /\ \A j \in DOMAIN events : events[j] = e => j <= i
    ELSE 0

\* invocations of the release actuator so far
Burns == Count(events, "burnwire HIGH")

\* invocations made by a sample: BurnWire() called from readDHT22Values,
\* right after the readings
SampleBurns ==
    Cardinality({i \in DOMAIN events :
        events[i] = "burnwire HIGH" /\ i > 2 /\ events[i - 2] = "dht.read"})

\* invocations since the latest sample took its readings
BurnsSinceLastRead ==
    Cardinality({i \in DOMAIN events :
        events[i] = "burnwire HIGH" /\ i > LastIndex("dht.read")})

\* the two entries a sample can make
SampleEntries == {"Humidity: Temperature:", "Failed to read from DHT sensor"}

\* every release so far was invoked either by a sample, right after its
\* readings, or by loop() after the ramp-down
ReleasesAccountedFor ==
    \A i \in DOMAIN events :
        events[i] = "burnwire HIGH" =>
            /\ i > 2
            /\ events[i - 1] = "Burning wire"
            /\ events[i - 2] \in {"dht.read", "Turning lights off"}

\* ------------------------------------------------------------- claims

\* C1: in every run the release actuator (burnwire) is invoked at most once
\* between the trigger and terminal idle.
C1_AtMostOneRelease == Burns <= 1

\* C2 as stated: when a sample whose temperature is at or over the limit
\* (80.0) comes to its log entry, exactly one release has been invoked since
\* its readings.
C2_AtOrOverLimitReleases ==
    (pc = "dhtCheck" /\ t # NaN /\ t >= TempLimit) => BurnsSinceLastRead = 1

\* C2 amended: when a sample comes to its log entry, exactly one release has
\* been invoked since its readings if its temperature is strictly over the
\* limit, and none if it is at the limit, under it or invalid; no release is
\* invoked between two samples otherwise.
C2_OverLimitReleasesOnce ==
    /\ pc = "dhtCheck" =>
          BurnsSinceLastRead = (IF t # NaN /\ t > TempLimit THEN 1 ELSE 0)
    /\ ReleasesAccountedFor

C2_Witness ==
    /\ pc = "dhtCheck"
    /\ t = 801
    /\ BurnsSinceLastRead = 1

Tail5(seq) == IF Len(seq) >= 5 THEN SubSeq(seq, Len(seq) - 4, Len(seq)) ELSE << >>

\* C3: a temperature fault in a wait loop runs the release inside the sample,
\* before the sample's entry; the sample then makes its entry and the
\* sequence goes on as usual: the rest of the loop, ramp up, start, the
\* recording loop, stop, ramp down and a further release at the end of the
\* mission.
C3_FaultThenNormalSequence ==
    /\ \A i \in DOMAIN events :
          (events[i] = "burnwire HIGH" /\ events[i - 2] = "dht.read"
             /\ i + 3 <= Len(events)) => events[i + 3] \in SampleEntries
    /\ (pc = "dhtCheck" /\ t # NaN /\ t > TempLimit) =>
          Tail5(events) = <<"dht.read", "Burning wire", "burnwire HIGH",
                            "burnwire LOW", "End of mission. blue_eye is coming up!">>
    /\ (pc = "idle" /\ SampleBurns >= 1) =>
          /\ Count(events, "ramp up") = 1
          /\ Count(events, "client.connect") = 2
          /\ Count(events, "ramp down") = 1
          /\ Burns = SampleBurns + 1
          /\ LastIndex("burnwire HIGH") > LastIndex("ramp down")
          /\ LastIndex("ramp down") > LastIndex("client.connect")
          /\ LastIndex("client.connect") > LastIndex("dht.read")

C3_Witness ==
    /\ pc = "idle"
    /\ SampleBurns >= 1
    /\ Burns = 2

\* C4: neither wait loop lasts longer than its configured duration plus one
\* sampling interval, temperature faults included.
C4_LoopWithinOneInterval ==
    /\ pc = "rampUp" => now - time_now <= (dropTime * oneMinute) + oneMinute
    /\ pc = "stopRecording" => now - time_now <= (recordingTime * oneMinute) + oneMinute

\* the mission phase of a position of the sketch
PhaseOf(p, stk) ==
    CASE p \in {"setup", "sdBegin", "haltSD", "wifiCheck", "haltWifi",
                "connectBegin", "connectLoop"} -> "Boot"
      [] p = "magSwitch" -> "AwaitingTrigger"
      [] p \in {"udpBegin", "sendMagicPacket", "udpFlush", "udpStop"} -> "Waking"
      [] p \in {"descent", "dropLoop", "dropDelay"} -> "Descending"
      [] p \in {"rampUp", "startRecording", "recording", "recLoop", "recDelay",
                "stopRecording", "rampDown"} -> "Recording"
      [] p \in {"release", "burnWire", "burnHold", "disconnect"} -> "Releasing"
      [] p \in {"dhtRead", "dhtCheck"} ->
            IF stk[Len(stk)] = "dropDelay" THEN "Descending" ELSE "Recording"
      [] p = "idle" -> "Idle"

PhaseRank(ph) ==
    CASE ph = "Boot" -> 0
      [] ph = "AwaitingTrigger" -> 1
      [] ph = "Waking" -> 2
      [] ph = "Descending" -> 3
      [] ph = "Recording" -> 4
      [] ph = "Releasing" -> 5
      [] ph = "Idle" -> 6

\* C5: the mission phase never regresses, and once the release actuator has
\* been energized no sample is taken, no ramp runs and no camera command is
\* issued.
C5_PhaseNeverRegresses ==
    /\ [][PhaseRank(PhaseOf(pc', stack')) >= PhaseRank(PhaseOf(pc, stack))]_vars
    /\ [](\A i \in DOMAIN events : \A j \in DOMAIN events :
            (events[i] = "burnwire HIGH" /\ j > i) =>
                events[j] \notin {"dht.read", "ramp up", "ramp down", "client.connect"})

C6_StopRequest == "GET /gp/gpControl/command/shutter?p=0"

\* C6 as stated: the stop-recording command is never issued before the
\* ramp-down has completed.
C6_StopAfterRampDown ==
    Count(events, C6_StopRequest) >= 1 => Count(events, "ramp down") = 1

C6_ReleaseTail ==
    <<"ramp down", "Turning lights off", "Burning wire", "burnwire HIGH",
      "burnwire LOW", "End of mission. blue_eye is coming up!", "WiFi.disconnect">>

EventsFrom(i) == SubSeq(events, i, Len(events))

\* C6 amended: at the end of the Recording phase the stop-recording command
\* is attempted first, then the illumination is ramped down, then the release
\* actuator is invoked, then terminal idle is entered: the ramp-down never
\* starts before the stop-recording command has been attempted.
C6_StopThenRampDownThenRelease ==
    /\ Count(events, "ramp down") >= 1 =>
          /\ Count(events, "client.connect") = 2
          /\ LastIndex("client.connect") < LastIndex("ramp down")
    /\ pc = "idle" =>
          EventsFrom(LastIndex("client.connect")) \in
             { <<"client.connect", C6_StopRequest, "GoPro stopped recording">>
                   \o C6_ReleaseTail,
               <<"client.connect", "Stop recording failed">> \o C6_ReleaseTail }

C6_Witness ==
    /\ pc = "idle"
    /\ Count(events, C6_StopRequest) = 1

\* the events that are no log entries
Calls ==
    {"initializeLog", "WiFi.begin", "digitalRead LOW", "Udp.begin", "Udp.write",
     "Udp.flush", "Udp.stop", "dht.read", "burnwire HIGH", "burnwire LOW",
     "ramp up", "ramp down", "client.connect", "WiFi.disconnect",
     "GET /gp/gpControl/command/shutter?p=1",
     "GET /gp/gpControl/command/shutter?p=0"}

IsLogAttempt(e) == e \notin Calls

\* the entries printInLog was called with since the log was initialised
AttemptsSinceInit ==
    SelectSeq(EventsFrom(LastIndex("initializeLog") + 1), IsLogAttempt)

\* the log of a mission with the given sample entries
MissionLog(s1, s2) ==
    <<"Arduino is connected to GoPro's WiFi network",
      "Magnetic switch activated", "Waking up GoPro",
      "blue_eye on its way to the deep sea">>
    \o s1 \o
    <<"blue_eye arrived to the seabed", "Turning lights on",
      "GoPro started recording">>
    \o s2 \o
    <<"GoPro stopped recording", "Turning lights off", "Burning wire",
      "End of mission. blue_eye is coming up!">>

C7_Precondition ==
    /\ SampleBurns = 0
    /\ Len(requests) = 2
    /\ log = AttemptsSinceInit

\* C7: without temperature fault, every append and both connections
\* succeeding, the log of the finished mission is: trigger, wake, on its way,
\* dropTime sample entries, arrived, lights on, start, recordingTime sample
\* entries, stop, lights off, burning wire, end of mission; terminal idle adds
\* nothing.
C7_MissionLogSequence ==
    (pc = "idle" /\ C7_Precondition) =>
        \E s1 \in [1..dropTime -> SampleEntries] :
        \E s2 \in [1..recordingTime -> SampleEntries] :
            log = MissionLog(s1, s2)

C7_Witness ==
    /\ pc = "idle"
    /\ C7_Precondition
    /\ dropTime = 1
    /\ recordingTime = 2

Ceil(a, b) == (a + b - 1) \div b

ReadsAfter(i) ==
    Cardinality({k \in DOMAIN events : k > i /\ events[k] = "dht.read"})

BurnsAfter(i) ==
    Cardinality({k \in DOMAIN events : k > i /\ events[k] = "burnwire HIGH"})

LoopAsConfigured(start, minutes) ==
    /\ ReadsAfter(start) = Ceil(minutes * oneMinute, oneMinute)
    /\ now - time_now >= minutes * oneMinute
    /\ now - time_now < (minutes * oneMinute) + oneMinute

Triggered == Count(events, "digitalRead LOW") >= 1

\* C9: once the trigger has been asserted the sequencer reaches terminal
\* idle and stays there; in idle nothing changes any more, and the trigger is
\* read asserted at most once per boot.
C9_EventuallyIdleForever ==
    /\ Triggered ~> [](pc = "idle")
    /\ [][pc = "idle" => UNCHANGED vars]_vars
    /\ [](Count(events, "digitalRead LOW") <= 1)

C9_Witness ==
    /\ pc = "idle"
    /\ Triggered

AfterStart == IF recordingTime > 0 THEN "dht.read" ELSE "client.connect"

\* C10: a start or stop command whose connection fails makes one failure
\* entry, sends no request, is not tried again, and is followed by the same
\* step as a command that succeeded; the ramp-down and the final release
\* still run.
C10_FailedCommandSkipped ==
    /\ Count(events, "client.connect") <= 2
    /\ Len(requests) = Count(events, "GET /gp/gpControl/command/shutter?p=1")
                     + Count(events, C6_StopRequest)
    /\ Count(events, "Start recording failed") = 1 =>
          Count(events, "GET /gp/gpControl/command/shutter?p=1") = 0
    /\ Count(events, "Stop recording failed") = 1 => Count(events, C6_StopRequest) = 0
    /\ \A i \in DOMAIN events :
          /\ events[i] \in {"Start recording failed", "Stop recording failed"} =>
                events[i - 1] = "client.connect"
          /\ (events[i] \in {"Start recording failed", "GoPro started recording"}
                /\ i < Len(events)) => events[i + 1] = AfterStart
          /\ (events[i] \in {"Stop recording failed", "GoPro stopped recording"}
                /\ i < Len(events)) => events[i + 1] = "ramp down"
    /\ (pc = "idle" /\ Len(requests) < 2) =>
          /\ Count(events, "client.connect") = 2
          /\ Count(events, "Start recording failed")
               + Count(events, "Stop recording failed") = 2 - Len(requests)
          /\ Count(events, "ramp down") = 1
          /\ LastIndex("burnwire HIGH") > LastIndex("ramp down")

C10_Witness ==
    /\ pc = "idle"
    /\ Count(events, "Start recording failed") = 1
    /\ Count(events, "Stop recording failed") = 1

\* C11: every wake packet sent has 102 bytes; bytes 0..5 are 0xFF and byte
\* i, for i in 6..101, is byte (i - 6) mod 6 of the hardware identifier,
\* whatever the identifier.
C11_WakePacketLayout ==
    \A k \in DOMAIN packets :
        /\ Len(packets[k]) = 102
        /\ \A i \in 0..5 : packets[k][i + 1] = 255
        /\ \A i \in 6..101 : packets[k][i + 1] = macAddress[((i - 6) % 6) + 1]

C11_Witness ==
    /\ Len(packets) = 1
    /\ macAddress = <<170, 0, 0, 0, 0, 170>>

\* the steps of WakeupGoPro(), in the order of the code, after the reading
\* of the trigger and its log entry
C12_WakeSequence ==
    <<"digitalRead LOW", "Magnetic switch activated",
      "Udp.begin", "Udp.write", "Udp.flush", "Udp.stop">>

\* camera commands, sensor samples and releases
C12_MissionCalls ==
    {"client.connect", "dht.read", "burnwire HIGH",
     "GET /gp/gpControl/command/shutter?p=1",
     "GET /gp/gpControl/command/shutter?p=0"}

C12_WakePositions == {"sendMagicPacket", "udpFlush", "udpStop"}

C12_BeforeWakeEnd ==
    {"setup", "sdBegin", "haltSD", "wifiCheck", "haltWifi", "connectBegin",
     "connectLoop", "magSwitch", "udpBegin"} \cup C12_WakePositions

\* C12: per mission exactly one wake packet is emitted, only after the
\* trigger was read asserted and before any camera command, sensor sample or
\* release; the wake is open channel, one packet, settle delay, flush, close
\* channel, and the channel is closed before the descent loop starts.
C12_OneWakeInOrder ==
    /\ [](/\ Len(packets) = Count(events, "Udp.write")
          /\ Len(packets) <= 1
          /\ \A k \in 3..6 : Count(events, C12_WakeSequence[k]) <= 1
          \* each step of the wake directly follows the one before it
          /\ \A k \in 3..6 : \A i \in DOMAIN events :
                events[i] = C12_WakeSequence[k] =>
                    /\ i >= k
                    /\ SubSeq(events, i - k + 1, i) = SubSeq(C12_WakeSequence, 1, k)
          \* nothing of the mission happens before the channel is closed
          /\ \A i \in DOMAIN events :
                events[i] \in C12_MissionCalls =>
                    LastIndex("Udp.stop") \in 1..(i - 1)
          /\ udpOpen <=> pc \in C12_WakePositions
          /\ pc \notin C12_BeforeWakeEnd =>
                /\ Len(packets) = 1
                /\ Count(events, "Udp.stop") = 1
                /\ ~udpOpen)
    \* the settle delay between the packet and the flush
    /\ [][pc = "sendMagicPacket" =>
            /\ Len(packets') = Len(packets) + 1
            /\ now' = now + 6000
            /\ pc' = "udpFlush"
            /\ udpOpen']_vars

C12_Witness ==
    /\ pc = "idle"
    /\ Len(packets) = 1
    /\ Count(events, "dht.read") >= 1
    /\ Count(events, "client.connect") = 2

\* the values a step writes to the illumination output
C13_Written == SubSeq(lightsTrace', Len(lightsTrace) + 1, Len(lightsTrace'))

C13_NonDecreasing(w) == \A i \in 1..(Len(w) - 1) : w[i] <= w[i + 1]
C13_NonIncreasing(w) == \A i \in 1..(Len(w) - 1) : w[i] >= w[i + 1]

\* C13: every value written to the illumination output is within [0,255];
\* the values written during ramp-up are non-decreasing and the values
\* written during ramp-down, the final switch-off included, non-increasing.
C13_RampsBoundedMonotone ==
    /\ [](/\ lights \in 0..255
          /\ \A i \in DOMAIN lightsTrace : lightsTrace[i] \in 0..255)
    /\ [][/\ pc = "rampUp" =>
                /\ Len(C13_Written) > 1
                /\ C13_NonDecreasing(C13_Written)
                /\ lights' = C13_Written[Len(C13_Written)]
          /\ pc = "rampDown" =>
                /\ Len(C13_Written) > 1
                /\ C13_NonIncreasing(C13_Written)
                /\ C13_Written[Len(C13_Written)] = 0
                /\ lights' = 0]_vars

C13_Witness ==
    /\ pc = "release"
    /\ Len(lightsTrace) = 6 + Len(RampUpWrites) + Len(RampDownWrites)
    /\ lights = 0

\* from the call of StartRecording() to the call of StopRecording(), the
\* samples of the recording loop and their releases included
C14_LightsOnPosition ==
    \/ pc \in {"startRecording", "recording", "recLoop", "recDelay",
               "stopRecording"}
    \/ /\ stack # << >>
       /\ stack[Len(stack)] = "recDelay"

\* C14: ramp-up steps the illumination output in unit increments from 0 up
\* to and including 255, so that the output is 255 when the start-recording
\* command is issued and throughout the Recording phase; ramp-down steps it
\* in unit decrements from 255 down to 0.
C14_RampUpReaches255 ==
    /\ [](C14_LightsOnPosition => lights = 255)
    /\ [][/\ pc = "rampUp" =>
                /\ C13_Written[1] = 0
                /\ C13_Written[Len(C13_Written)] = 255
                /\ \A i \in 1..(Len(C13_Written) - 1) :
                        C13_Written[i + 1] = C13_Written[i] + 1
          /\ pc = "rampDown" =>
                /\ C13_Written[1] = 255
                /\ C13_Written[Len(C13_Written)] = 0
                /\ \A i \in 1..(Len(C13_Written) - 2) :
                        C13_Written[i + 1] = C13_Written[i] - 1]_vars

\* the log of this boot keeps every entry it has
C15_LogOnlyGrows ==
    /\ Len(log') >= Len(log)
    /\ SubSeq(log', 1, Len(log)) = log

\* C15: the log is truncated exactly once per boot, before any log-append
\* attempt is made; after the truncation no entry is ever removed or
\* modified.
C15_TruncatedOnceBeforeAttempts ==
    /\ [](/\ Count(events, "initializeLog") <= 1
          /\ \A i \in DOMAIN events :
                IsLogAttempt(events[i]) =>
                    LastIndex("initializeLog") \in 1..(i - 1))
    /\ [][Count(events, "initializeLog") = 1 => C15_LogOnlyGrows]_vars

C16_Greeting == "Hello! Welcome to the blue_eye 2.0"
C16_NoCard == "SD card failed, or not present in MEM Shield"
C16_NoShield == "WiFi chipset not present in Arduino"

\* C16: if the storage medium fails to initialise, or the network hardware
\* is absent, at boot, the controller makes one log attempt and halts
\* forever: the trigger is never polled and no wake packet, camera command,
\* illumination ramp or release ever occurs.
C16_BootFailureHalts ==
    /\ [](/\ pc = "haltSD" =>
                /\ ~sdBegun
                /\ events = <<C16_Greeting, C16_NoCard>>
          /\ pc = "haltWifi" =>
                /\ events = <<C16_Greeting, "initializeLog", C16_NoShield>>
                /\ Len(log) <= 1
          /\ pc \in {"haltSD", "haltWifi"} =>
                /\ packets = << >>
                /\ requests = << >>
                /\ lightsTrace = << >>
                /\ lights = 0
                /\ burnwire = "LOW"
                /\ switchState = "LOW"
                /\ LEDmagswitch = "LOW"
                /\ status = "WL_IDLE_STATUS"
                /\ ~udpOpen)
    /\ [][/\ pc \in {"haltSD", "haltWifi"} => UNCHANGED vars
          /\ (pc = "sdBegin" /\ ~sdBegun') => pc' = "haltSD"
          /\ (pc = "wifiCheck" /\ Len(events') > Len(events)) => pc' = "haltWifi"]_vars

C16_Witness ==
    /\ pc = "haltWifi"
    /\ log = <<C16_NoShield>>

C16_WitnessNoCard ==
    /\ pc = "haltSD"
    /\ log = <<"previous boot">>

\* everything but the content of the log and the count of abnormal outcomes:
\* position, clock, pins, network, and the history of calls and attempts
C17_Rest ==
    <<pc, stack, now, time_now, dropTime, recordingTime, justWait, macAddress,
      switchState, status, sdBegun, LEDstatus, LEDmagswitch, LEDwifi,
      lights, lightsTrace, burnwire, udpOpen, packets, requests, h, t,
      events, connectTries>>

\* the entries a step called printInLog with
C17_Attempted ==
    SelectSeq(SubSeq(events', Len(events) + 1, Len(events')), IsLogAttempt)

\* a step all of whose appends succeed
C17_AllAppended == log' = log \o C17_Attempted

\* a step after which the log is the log before it, followed by some of the
\* entries the step attempted
C17_SomeDropped ==
    /\ Len(log') \in Len(log)..(Len(log) + Len(C17_Attempted))
    /\ SubSeq(log', 1, Len(log)) = log
    /\ \A i \in (Len(log) + 1)..Len(log') :
            \E j \in DOMAIN C17_Attempted : log'[i] = C17_Attempted[j]

\* C17: a log append whose sink fails is silently dropped: whatever appends
\* fail after boot, every step does to the position, the clock, the
\* actuators and the network exactly what the step with every append
\* succeeding does; only the log differs, by the dropped entries.
C17_SinkFailureTransparent ==
    [][sdBegun =>
        /\ C17_SomeDropped
        /\ \E v \in {C17_Rest'} :
              ENABLED (Next /\ C17_Rest' = v /\ C17_AllAppended)]_vars

C17_Witness ==
    /\ pc = "idle"
    /\ sdBegun
    /\ Len(log) < Len(AttemptsSinceInit)

\* the readings of the sample in progress, one of them invalid
C18_InvalidSample == pc = "dhtCheck" /\ (isnan(h) \/ isnan(t))

\* C18 as stated: a sample in which either the temperature or the humidity
\* reading is invalid only logs one failure message and returns, and never
\* invokes the release actuator.
C18_InvalidSampleNeverReleases ==
    C18_InvalidSample => BurnsSinceLastRead = 0

\* C18, amended: a sample whose temperature reading is invalid invokes no
\* release; a sample whose humidity reading is invalid and whose temperature
\* reading is valid invokes the release once if the temperature is over the
\* limit and not otherwise; in both cases the sample then logs one failure
\* message and returns.
C18_InvalidSampleLogsOneFailure ==
    /\ [](C18_InvalidSample =>
            BurnsSinceLastRead = IF OverLimit(t) THEN 1 ELSE 0)
    /\ [](C18_InvalidSample /\ isnan(t) => BurnsSinceLastRead = 0)
    /\ [](C18_InvalidSample /\ BurnsSinceLastRead = 1 =>
            /\ burnwire = "LOW"
            /\ SubSeq(events, LastIndex("dht.read"), Len(events)) =
                 <<"dht.read", "Burning wire", "burnwire HIGH", "burnwire LOW",
                   "End of mission. blue_eye is coming up!">>)
    /\ [][C18_InvalidSample =>
            /\ events' = events \o <<"Failed to read from DHT sensor">>
            /\ pc' = Head(stack)
            /\ stack' = Tail(stack)
            /\ now' = now
            /\ burnwire' = burnwire]_vars

C18_Witness ==
    /\ C18_InvalidSample
    /\ isnan(h)
    /\ OverLimit(t)
    /\ BurnsSinceLastRead = 1

\* C19: the release-actuator output is asserted only while a release
\* invocation is in progress: it is low from boot until the first release,
\* each release asserts it, holds it for the fixed 10 minutes, during which
\* no sample is taken and no other output changes, then deasserts it, and it
\* is low in every state of terminal idle.
C19_AssertedOnlyDuringRelease ==
    /\ [](/\ burnwire = "HIGH" <=> pc = "burnHold"
          /\ Burns = 0 => burnwire = "LOW"
          /\ pc = "idle" => burnwire = "LOW"
          /\ Count(events, "burnwire LOW") =
                Burns - (IF pc = "burnHold" THEN 1 ELSE 0))
    /\ [][/\ pc = "burnWire" =>
                /\ burnwire' = "HIGH"
                /\ pc' = "burnHold"
                /\ now' = now
          /\ pc = "burnHold" =>
                /\ now' = now + 10 * oneMinute
                /\ burnwire' = "LOW"
                /\ Count(events', "dht.read") = Count(events, "dht.read")
                /\ UNCHANGED <<lights, lightsTrace, LEDstatus, LEDmagswitch,
                               LEDwifi, udpOpen, packets, requests, h, t>>]_vars

C19_Witness ==
    /\ pc = "burnHold"
    /\ burnwire = "HIGH"
    /\ Burns = 2
    /\ Count(events, "burnwire LOW") = 1

\* the positions of setup() up to the connect loop
C20_BeforeTriggerWait ==
    {"setup", "sdBegin", "haltSD", "wifiCheck", "haltWifi", "connectBegin",
     "connectLoop"}

\* C20: the trigger is polled only after the boot-time wireless connection
\* was reported connected; the connection is attempted exactly once, and if
\* that attempt does not return connected the connect loop neither attempts
\* it again nor reads the link status again, so that the controller stays in
\* the connect loop forever and never reaches the trigger wait.
C20_ConnectOnceOrLoopForever ==
    /\ [](/\ Count(events, "WiFi.begin") <= 1
          /\ pc \notin C20_BeforeTriggerWait =>
                /\ status = "WL_CONNECTED"
                /\ Count(events, "WiFi.begin") = 1
                /\ connectTries = 0
          /\ Count(events, "digitalRead LOW") >= 1 => status = "WL_CONNECTED"
          /\ status \notin {"WL_IDLE_STATUS", "WL_CONNECTED"} =>
                /\ pc = "connectLoop"
                /\ Count(events, "WiFi.begin") = 1
                /\ switchState = "LOW"
                /\ LEDmagswitch = "LOW"
                /\ packets = << >>)
    /\ [][/\ status # "WL_IDLE_STATUS" => status' = status
          /\ (pc = "connectLoop" /\ status # "WL_CONNECTED") =>
                /\ pc' = "connectLoop"
                /\ Count(events', "WiFi.begin") = 1]_vars

C20_Witness ==
    /\ pc = "connectLoop"
    /\ status = "WL_CONNECT_FAILED"
    /\ connectTries >= 2
====
